---- MODULE Spec2Model ----
(***************************************************************************)
(* Model of product_catalog.py: a SQLite table "product" whose columns are *)
(* changed at run time, and the ledger product_field_versions that records *)
(* every field change.  The state is the committed content of the database *)
(* plus the locals of the handlers that are running: requests are served   *)
(* by threads that open connections of their own, so handlers overlap.     *)
(* Every action is one statement, or one transaction, of a handler (the    *)
(* code commits the product write and the ledger write on two different    *)
(* connections, and CREATE TABLE / DROP TABLE commit on their own when no  *)
(* DML has opened a transaction).                                          *)
(***************************************************************************)
EXTENDS Integers, Sequences, FiniteSets, TLC

\* ------------------------------------------------------------------ bounds
\* handler calls in one behaviour, and injected failures among them
MaxOps == 2
MaxFaults == 1
\* characters in a name handed to the sanitizer
MaxLen == 3

\* ------------------------------------------------------- values and text
\* Text is a sequence of characters.  A value is NULL, an integer, a float
\* or text; the floats of the model are whole numbers (7.0)
Null == [t |-> "null", i |-> 0, s |-> <<>>]
IntV(n) == [t |-> "int", i |-> n, s |-> <<>>]
RealV(n) == [t |-> "real", i |-> n, s |-> <<>>]
TextV(str) == [t |-> "text", i |-> 0, s |-> str]

DigitChars == <<"0", "1", "2", "3", "4", "5", "6", "7", "8", "9">>
IsDigit(ch) == \E k \in 1..10 : DigitChars[k] = ch
DigitVal(ch) == (CHOOSE k \in 1..10 : DigitChars[k] = ch) - 1

RECURSIVE NatToStr(_)
NatToStr(n) == IF n < 10 THEN <<DigitChars[n + 1]>>
               ELSE NatToStr(n \div 10) \o <<DigitChars[(n % 10) + 1]>>
IntToStr(n) == IF n < 0 THEN <<"-">> \o NatToStr(0 - n) ELSE NatToStr(n)

RECURSIVE ParseNat(_)
ParseNat(str) == IF str = <<>> THEN 0
                 ELSE ParseNat(SubSeq(str, 1, Len(str) - 1)) * 10 + DigitVal(str[Len(str)])

\* optional sign followed by one or more decimal digits
IsIntLiteral(str) ==
  LET body == IF Len(str) > 0 /\ str[1] = "-" THEN Tail(str) ELSE str
  IN  Len(body) > 0 /\ \A k \in 1..Len(body) : IsDigit(body[k])
ParseInt(str) == IF str[1] = "-" THEN 0 - ParseNat(Tail(str)) ELSE ParseNat(str)

\* Decimal(str) for a plain literal: optional sign, digits with at most one
\* point among them, at least one digit
DecimalBody(str) == IF Len(str) > 0 /\ str[1] = "-" THEN Tail(str) ELSE str
PointsOf(str) == {k \in 1..Len(str) : str[k] = "."}
IsDecimalLiteral(str) ==
  LET body == DecimalBody(str)
  IN  /\ Cardinality(PointsOf(body)) <= 1
      /\ \E k \in 1..Len(body) : IsDigit(body[k])
      /\ \A k \in 1..Len(body) : IsDigit(body[k]) \/ body[k] = "."
\* digits after the point, and the digits of the literal read as one number
Scale(str) ==
  LET body == DecimalBody(str)
  IN  IF PointsOf(body) = {} THEN 0
      ELSE Len(body) - (CHOOSE k \in PointsOf(body) : TRUE)
Unscaled(str) == ParseNat(SelectSeq(DecimalBody(str), IsDigit))
RECURSIVE Pow10(_)
Pow10(n) == IF n = 0 THEN 1 ELSE 10 * Pow10(n - 1)

\* a quotient cut off below the point
QuantizeDown(num, den) == num \div den

\* quantize(Decimal('1')) under the default context: ROUND_HALF_EVEN
Quantize(num, den) ==
  LET q == num \div den
      r == num % den
  IN  IF 2 * r > den \/ (2 * r = den /\ q % 2 = 1) THEN q + 1 ELSE q

\* int((Decimal(price_raw) * 100).quantize(Decimal('1')))
PriceCents(str) ==
  LET cents == Quantize(Unscaled(str) * 100, Pow10(Scale(str)))
  IN  IF str[1] = "-" THEN 0 - cents ELSE cents

\* text SQLite reads as a whole number: an integer literal, or a decimal
\* literal with nothing but zeros after its point
IsWholeLiteral(str) ==
  /\ IsDecimalLiteral(str)
  /\ LET body == DecimalBody(str)
     IN  \A k \in 1..Len(body) :
           (\E p \in PointsOf(body) : p < k) => body[k] = "0"
WholeOf(str) ==
  LET body == DecimalBody(str)
      whole == IF PointsOf(body) = {} THEN body
               ELSE SubSeq(body, 1, (CHOOSE k \in PointsOf(body) : TRUE) - 1)
  IN  IF str[1] = "-" THEN 0 - ParseNat(whole) ELSE ParseNat(whole)

\* Python str(v): str(None) is the text None, str(7.0) the text 7.0
Str(v) == IF v.t = "null" THEN <<"N", "o", "n", "e">>
          ELSE IF v.t = "int" THEN IntToStr(v.i)
          ELSE IF v.t = "real" THEN IntToStr(v.i) \o <<".", "0">>
          ELSE v.s

\* the form in which record_field_versions stores a value: None stays NULL
Stored(v) == IF v.t = "null" THEN Null ELSE TextV(Str(v))

\* 'INT' in col_type.upper(), over the column types of the model
HasINT(ctype) == ctype = "INTEGER"
\* SQLite derives the affinity from the declared type name: INTEGER when it
\* holds INT, TEXT when it holds TEXT, REAL when it holds REAL, and NUMERIC
\* for a name it does not know
Affinity(ctype) == IF HasINT(ctype) THEN "INTEGER"
                   ELSE IF ctype = "TEXT" THEN "TEXT"
                   ELSE IF ctype = "REAL" THEN "REAL" ELSE "NUMERIC"
NumericAffinities == {"INTEGER", "NUMERIC", "REAL"}

\* SQLite column affinity applied to a value on its way into a column: a
\* column of INTEGER or NUMERIC affinity stores a whole number as an integer,
\* one of REAL affinity as a float, a TEXT column stores numbers as text
ApplyAffinity(ctype, v) ==
  IF Affinity(ctype) \in {"INTEGER", "NUMERIC"}
  THEN IF v.t = "text" /\ IsWholeLiteral(v.s) THEN IntV(WholeOf(v.s))
       ELSE IF v.t = "real" THEN IntV(v.i)
       ELSE v
  ELSE IF Affinity(ctype) = "REAL"
  THEN IF v.t = "text" /\ IsWholeLiteral(v.s) THEN RealV(WholeOf(v.s))
       ELSE IF v.t = "int" THEN RealV(v.i)
       ELSE v
  ELSE IF v.t \in {"int", "real"} THEN TextV(Str(v)) ELSE v

\* re.sub(r'[^0-9A-Za-z_]', '_', name)
WordChars ==
  {"0", "1", "2", "3", "4", "5", "6", "7", "8", "9", "_",
   "A", "B", "C", "D", "E", "F", "G", "H", "I", "J", "K", "L", "M",
   "N", "O", "P", "Q", "R", "S", "T", "U", "V", "W", "X", "Y", "Z",
   "a", "b", "c", "d", "e", "f", "g", "h", "i", "j", "k", "l", "m",
   "n", "o", "p", "q", "r", "s", "t", "u", "v", "w", "x", "y", "z"}

\* a sanitizer that leaves the other characters out
sanitize_identifier_stripping(name) == SelectSeq(name, LAMBDA ch : ch \in WordChars)

sanitize_identifier(name) ==
  [k \in 1..Len(name) |-> IF name[k] \in WordChars THEN name[k] ELSE "_"]

\* str.strip(): the text without the blanks at its two ends
strip(text) ==
  LET inked == {k \in 1..Len(text) : text[k] # " "}
  IN  IF inked = {} THEN <<>>
      ELSE SubSeq(text, CHOOSE k \in inked : \A m \in inked : k <= m,
                        CHOOSE k \in inked : \A m \in inked : m <= k)

\* ------------------------------------------------------------ input sets
\* the column names of the model are names the sanitizer leaves as they are
NameChars == {"a", "Z", "7", "_", " ", "'", "-"}
ColumnNames == {"id", "Vendor_name", "c"}
\* the types the add-column form suggests
ColumnTypes == {"INTEGER", "TEXT", "REAL"}
\* the type field of the schema forms is free text
TypeNames == ColumnTypes \cup {"FOO"}
FormVals == {<<>>, <<"a">>, <<"0", "7">>, <<"N", "o", "n", "e">>}
\* the default field of the add-column form: empty, a value, a lone quote
DefaultVals == {<<>>, <<"0", "7">>, <<"'">>}
PriceVals == {<<"1", "2", ".", "5", "0">>, <<"1", "2", ".", "5", "0", "4">>,
              <<"1", "2", ".", "5", "0", "6">>, <<"-", ".", "5">>, <<"1", "x">>, <<>>}

\* requests in flight at one time
Requests == {1, 2}

\* ------------------------------------------------------------------ state
VARIABLES
  product,    \* table product: [exists, cols, rows]
  shadow,     \* table product_new: [exists, cols, rows]
  ledger,     \* table product_field_versions, in id order
  seq,        \* AUTOINCREMENT counter of product_field_versions
  clock,      \* datetime.utcnow() as a counter
  pc,         \* for each request slot, the statement its handler stands at
  job,        \* for each request slot, the locals of its handler
  last,       \* the handler that made the last step, and its outcome so far
  ops,        \* handler calls made so far
  overlapped, \* whether a request has arrived while another was being served
  faults,     \* failures injected so far
  identifier  \* a name as typed, as sanitize_identifier left it, and the calls made

vars == <<product, shadow, ledger, seq, clock, pc, job, last, ops, overlapped,
          faults, identifier>>

NoTable == [exists |-> FALSE, cols |-> <<>>, rows |-> <<>>]
NoName == [raw |-> <<>>, name |-> <<>>, calls |-> 0]

\* one row of PRAGMA table_info: (cid, name, type, notnull, dflt_value, pk)
Column(name, ctype, dflt, pk) ==
  [name |-> name, type |-> ctype, notnull |-> FALSE, dflt |-> dflt, pk |-> pk]

\* CREATE TABLE IF NOT EXISTS "product" (id INTEGER PRIMARY KEY, Vendor_name TEXT)
PRODUCT_TABLE_SQL ==
  [exists |-> TRUE,
   cols |-> <<Column("id", "INTEGER", <<>>, TRUE), Column("Vendor_name", "TEXT", <<>>, FALSE)>>,
   rows |-> <<>>]

\* ---------------------------------------------------------------- helpers
Range(f) == {f[k] : k \in DOMAIN f}
NamesOf(cols) == [k \in 1..Len(cols) |-> cols[k].name]
HasColumn(tbl, name) == \E k \in 1..Len(tbl.cols) : tbl.cols[k].name = name
ColumnOf(tbl, name) == tbl.cols[CHOOSE k \in 1..Len(tbl.cols) : tbl.cols[k].name = name]

\* get_table_info('product'): no rows when the table is missing
get_table_info == IF product.exists THEN product.cols ELSE <<>>

\* a DEFAULT clause is written DEFAULT '<dflt>', and table_info reports the
\* literal with its quotes
Quoted(d) == <<"'">> \o d \o <<"'">>
\* the text is put between the quotes as it is: inside a string literal two
\* quotes stand for one, and a quote without its twin ends the literal
RECURSIVE QuotesPaired(_)
QuotesPaired(d) ==
  IF d = <<>> THEN TRUE
  ELSE IF d[1] # "'" THEN QuotesPaired(Tail(d))
  ELSE Len(d) >= 2 /\ d[2] = "'" /\ QuotesPaired(Tail(Tail(d)))
RECURSIVE Unescaped(_)
Unescaped(d) ==
  IF d = <<>> THEN <<>>
  ELSE IF d[1] = "'" THEN <<"'">> \o Unescaped(Tail(Tail(d)))
  ELSE <<d[1]>> \o Unescaped(Tail(d))
DefaultValue(col) ==
  IF col.dflt = <<>> THEN Null
  ELSE ApplyAffinity(col.type,
                     TextV(Unescaped(SubSeq(col.dflt, 2, Len(col.dflt) - 1))))

RECURSIVE MaxRowid(_)
MaxRowid(rows) == IF rows = <<>> THEN 0
                  ELSE LET m == MaxRowid(Tail(rows))
                       IN  IF Head(rows).rowid > m THEN Head(rows).rowid ELSE m

\* WHERE id = ? with an integer parameter: the comparison takes the affinity
\* of the column
MatchesId(tbl, row, pid) ==
  LET v == row.vals["id"]
  IN  IF Affinity(ColumnOf(tbl, "id").type) \in NumericAffinities
      THEN v.t \in {"int", "real"} /\ v.i = pid
      ELSE v.t = "text" /\ v.s = IntToStr(pid)
Matching(tbl, pid) == {k \in 1..Len(tbl.rows) : MatchesId(tbl, tbl.rows[k], pid)}
Min(S) == CHOOSE x \in S : \A y \in S : x <= y
Max(S) == CHOOSE x \in S : \A y \in S : y <= x


\* --------------------------------------------------------- handler results
\* arg is the record or version id of the request, col its target column,
\* prev the value a rollback found in the field it then overwrote
NoValue == [t |-> "none", i |-> 0, s |-> <<>>]

\* the locals of a handler: the request (op, arg, col, and fields, the names
\* its form carries), what it has read
\* (values bound from the form against the columns read, current_values of
\* the record, common columns of a rebuild), what it hands to the ledger
\* (product_id, diffs, changed_by, now), the column list and the statements
\* it still has to run, and the table as the call found it
NoJob == [op |-> "", arg |-> 0, col |-> "", fields |-> {}, values |-> <<>>,
          current_values |-> <<>>, product_id |-> 0, diffs |-> <<>>,
          changed_by |-> "", now |-> 0, new_columns |-> <<>>, common |-> <<>>,
          script |-> <<>>, prev |-> NoValue, before |-> NoTable]

Request(op, arg, col) == [NoJob EXCEPT !.op = op, !.arg = arg, !.col = col]

Outcome(j, outcome) ==
  [op |-> j.op, outcome |-> outcome, arg |-> j.arg, col |-> j.col, prev |-> j.prev]

\* a request arrives and is served by a thread of its own, whatever the
\* other requests are doing; it takes the first free slot
Begin(t) ==
  /\ pc[t] = "idle"
  /\ \A u \in Requests : u < t => pc[u] # "idle"
  /\ ops < MaxOps
  /\ ops' = ops + 1
  /\ overlapped' = (overlapped \/ \E u \in Requests : u # t /\ pc[u] # "idle")

\* the handler of request t goes on to its next statement
Goto(t, to, j) ==
  /\ pc' = [pc EXCEPT ![t] = to]
  /\ job' = [job EXCEPT ![t] = j]
  /\ last' = Outcome(j, "running")

\* the handler of request t returns or raises
Return(t, j, outcome) ==
  /\ pc' = [pc EXCEPT ![t] = "idle"]
  /\ job' = [job EXCEPT ![t] = NoJob]
  /\ last' = Outcome(j, outcome)

\* request t stands at a statement of handler op
At(t, op, where) == pc[t] = where /\ job[t].op = op

\* --------------------------------------------------------- record handlers
\* columns offered by the add and edit forms: every column but id
cols_for_form == SelectSeq(get_table_info, LAMBDA col : col.name # "id")
\* a request carries a value for some of them
Forms == UNION {[fields -> FormVals] :
                  fields \in SUBSET {col.name : col \in Range(cols_for_form)}}

\* a loop that binds what int() rejects as text
CoerceLenient(col, val) ==
  IF val # <<>>
  THEN IF HasINT(col.type) /\ IsIntLiteral(val)
       THEN [ok |-> TRUE, v |-> IntV(ParseInt(val))]
       ELSE [ok |-> TRUE, v |-> TextV(val)]
  ELSE [ok |-> TRUE, v |-> Null]

\* one pass of the loop over cols_for_form: the value bound for a column,
\* or ok = FALSE where int(val) raises
Coerce(col, val) ==
  IF val # <<>>
  THEN IF HasINT(col.type)
       THEN IF IsIntLiteral(val) THEN [ok |-> TRUE, v |-> IntV(ParseInt(val))]
            ELSE [ok |-> FALSE, v |-> Null]
       ELSE [ok |-> TRUE, v |-> TextV(val)]
  ELSE IF col.notnull /\ col.dflt = <<>>
       THEN IF HasINT(col.type) THEN [ok |-> TRUE, v |-> IntV(0)]
            ELSE IF col.type = "TEXT" THEN [ok |-> TRUE, v |-> TextV(<<>>)]
            ELSE [ok |-> TRUE, v |-> Null]
       ELSE [ok |-> TRUE, v |-> Null]

\* the price field of the form, read for the column price_cents
CoercePrice(price_raw) ==
  IF IsDecimalLiteral(price_raw) THEN [ok |-> TRUE, v |-> IntV(PriceCents(price_raw))]
  ELSE [ok |-> FALSE, v |-> Null]

\* request.form.get(name): None, taken like the empty text, when absent
FormGet(form, name) == IF name \in DOMAIN form THEN form[name] ELSE <<>>

\* str(old_v) != str(new_v)
Differs(old_v, new_v) == Str(old_v) # Str(new_v)

\* the values dict, in column order, bound against the columns that
\* get_table_info has just returned
ValuesOf(form) ==
  [k \in 1..Len(cols_for_form) |->
     [field |-> cols_for_form[k].name,
      c |-> IF cols_for_form[k].name = "price_cents" /\ "price" \in DOMAIN form
            THEN CoercePrice(form["price"])
            ELSE Coerce(cols_for_form[k], FormGet(form, cols_for_form[k].name))]]

Unbound(values) == \E k \in 1..Len(values) : ~values[k].c.ok

\* the value a statement binds for a column, if it names the column
Names(values, name) == \E k \in 1..Len(values) : values[k].field = name
Bound(values, name) ==
  values[CHOOSE k \in 1..Len(values) : values[k].field = name].c.v

\* the row INSERT INTO product (...) VALUES (...) creates
InsertedRow(values, rowid) ==
  [rowid |-> rowid,
   vals |-> [name \in Range(NamesOf(product.cols)) |->
     IF Names(values, name)
     THEN ApplyAffinity(ColumnOf(product, name).type, Bound(values, name))
     ELSE IF ColumnOf(product, name).pk /\ ColumnOf(product, name).type = "INTEGER"
          THEN IntV(rowid)
          ELSE DefaultValue(ColumnOf(product, name))]]

\* the statement names a column the table does not have, or there is no
\* table, or the list of columns is empty
Unprepared(values) ==
  \/ ~product.exists
  \/ values = <<>>
  \/ \E k \in 1..Len(values) : ~HasColumn(product, values[k].field)

\* NOT NULL constraint failed
NullInto(row) ==
  \E k \in 1..Len(product.cols) :
    product.cols[k].notnull /\ row.vals[product.cols[k].name] = Null

\* POST /add: the columns are read and the form is bound against them
add_product(t, form) ==
  /\ Begin(t)
  /\ LET j == [Request("add_product", 0, "") EXCEPT
                 !.fields = DOMAIN form, !.values = ValuesOf(form)]
     IN  IF Unbound(j.values)
         THEN Return(t, j, "TypeCoercionError")
         ELSE Goto(t, "read", j)
  /\ UNCHANGED <<product, shadow, ledger, seq, clock, faults, identifier>>

\* INSERT INTO product and its commit
add_product_insert(t) ==
  /\ At(t, "add_product", "read")
  /\ LET j == job[t]
         new_id == MaxRowid(product.rows) + 1
     IN  IF Unprepared(j.values) \/ NullInto(InsertedRow(j.values, new_id))
         THEN /\ Return(t, j, "error")
              /\ UNCHANGED product
         ELSE /\ product' = [product EXCEPT !.rows = Append(@, InsertedRow(j.values, new_id))]
              /\ Goto(t, "log", [j EXCEPT
                   !.arg = new_id,
                   !.product_id = new_id,
                   !.diffs = [k \in 1..Len(j.values) |->
                                [field |-> j.values[k].field, old |-> Null,
                                 new |-> j.values[k].c.v]],
                   !.changed_by = "create"])
  /\ UNCHANGED <<shadow, ledger, seq, clock, ops, overlapped, faults, identifier>>

\* UPDATE product SET k=?,... WHERE id=?
UpdatedRows(values, pid) ==
  [r \in 1..Len(product.rows) |->
     IF r \in Matching(product, pid)
     THEN [product.rows[r] EXCEPT !.vals =
             [name \in DOMAIN @ |->
                IF Names(values, name)
                THEN ApplyAffinity(ColumnOf(product, name).type, Bound(values, name))
                ELSE @[name]]]
     ELSE product.rows[r]]

\* POST /edit/<product_id>: the columns are read and the form kept
edit_product(t, product_id, form) ==
  /\ Begin(t)
  /\ Goto(t, "read", [Request("edit_product", product_id, "") EXCEPT
                        !.fields = DOMAIN form, !.values = ValuesOf(form)])
  /\ UNCHANGED <<product, shadow, ledger, seq, clock, faults, identifier>>

\* SELECT * FROM product WHERE id = ?, then the loop that binds the form
edit_product_select(t) ==
  /\ At(t, "edit_product", "read")
  /\ LET j == job[t]
     IN  IF ~product.exists \/ ~HasColumn(product, "id")
         THEN Return(t, j, "error")
         ELSE IF Matching(product, j.arg) = {}
         THEN Return(t, j, "RecordNotFound")
         ELSE IF Unbound(j.values)
         THEN Return(t, j, "TypeCoercionError")
         ELSE Goto(t, "selected", [j EXCEPT !.current_values =
                     product.rows[Min(Matching(product, j.arg))].vals])
  /\ UNCHANGED <<product, shadow, ledger, seq, clock, ops, overlapped, faults, identifier>>

\* current_values.get(name)
ValueRead(current_values, name) ==
  IF name \in DOMAIN current_values THEN current_values[name] ELSE Null

\* the UPDATE and its commit, then the diffs of the values written against
\* the values the SELECT returned
edit_product_update(t) ==
  /\ At(t, "edit_product", "selected")
  /\ LET j == job[t]
         changed == SelectSeq(j.values,
                      LAMBDA nv : Differs(ValueRead(j.current_values, nv.field), nv.c.v))
         diffs == [k \in 1..Len(changed) |->
                     [field |-> changed[k].field,
                      old |-> ValueRead(j.current_values, changed[k].field),
                      new |-> changed[k].c.v]]
         done == [j EXCEPT !.product_id = j.arg, !.diffs = diffs, !.changed_by = "edit"]
     IN  IF \/ Unprepared(j.values)
            \/ ~HasColumn(product, "id")
            \/ \E r \in 1..Len(product.rows) : NullInto(UpdatedRows(j.values, j.arg)[r])
         THEN /\ Return(t, j, "error")
              /\ UNCHANGED product
         ELSE /\ product' = [product EXCEPT !.rows = UpdatedRows(j.values, j.arg)]
              /\ IF diffs = <<>> THEN Return(t, j, "ok") ELSE Goto(t, "log", done)
  /\ UNCHANGED <<shadow, ledger, seq, clock, ops, overlapped, faults, identifier>>

\* GET /delete/<product_id>: SELECT id FROM product WHERE id = ?
delete_product(t, product_id) ==
  /\ Begin(t)
  /\ LET j == Request("delete_product", product_id, "")
     IN  IF ~product.exists \/ ~HasColumn(product, "id")
         THEN Return(t, j, "error")
         ELSE IF Matching(product, product_id) = {}
         THEN Return(t, j, "RecordNotFound")
         ELSE Goto(t, "selected", j)
  /\ UNCHANGED <<product, shadow, ledger, seq, clock, faults, identifier>>

\* DELETE FROM product WHERE id = ? and its commit
delete_product_delete(t) ==
  /\ At(t, "delete_product", "selected")
  /\ LET j == job[t]
     IN  IF ~product.exists \/ ~HasColumn(product, "id")
         THEN /\ Return(t, j, "error")
              /\ UNCHANGED product
         ELSE /\ product' = [product EXCEPT !.rows =
                    SelectSeq(@, LAMBDA row : ~MatchesId(product, row, j.arg))]
              /\ Return(t, j, "ok")
  /\ UNCHANGED <<shadow, ledger, seq, clock, ops, overlapped, faults, identifier>>

\* ------------------------------------------------------------------ ledger
\* rows that all take the id that follows the newest one
VersionRowsOneId(product_id, diffs, changed_by, now) ==
  [k \in 1..Len(diffs) |->
     [id |-> seq + 1,
      product_id |-> product_id,
      field_name |-> diffs[k].field,
      old_value |-> Stored(diffs[k].old),
      new_value |-> Stored(diffs[k].new),
      changed_at |-> now,
      changed_by |-> changed_by]]

\* the rows record_field_versions inserts, one per diff, with one timestamp
VersionRows(product_id, diffs, changed_by, now) ==
  [k \in 1..Len(diffs) |->
     [id |-> seq + k,
      product_id |-> product_id,
      field_name |-> diffs[k].field,
      old_value |-> Stored(diffs[k].old),
      new_value |-> Stored(diffs[k].new),
      changed_at |-> now,
      changed_by |-> changed_by]]

\* record_field_versions up to its INSERT: with no diffs it returns at once,
\* otherwise ensure_version_table finds the table in place and the time is
\* read
record_field_versions(t) ==
  /\ pc[t] = "log"
  /\ IF job[t].diffs = <<>>
     THEN /\ Return(t, job[t], "ok")
          /\ UNCHANGED clock
     ELSE /\ clock' = clock + 1
          /\ Goto(t, "stamped", [job[t] EXCEPT !.now = clock + 1])
  /\ UNCHANGED <<product, shadow, ledger, seq, ops, overlapped, faults, identifier>>

\* a ledger write that replaces the newest row instead of adding to the table
insert_versions_replacing(t) ==
  /\ pc[t] = "stamped"
  /\ ledger' = SubSeq(ledger, 1, Len(ledger) - 1)
                  \o VersionRows(job[t].product_id, job[t].diffs, job[t].changed_by,
                                 job[t].now)
  /\ seq' = seq + Len(job[t].diffs)
  /\ Return(t, job[t], "ok")
  /\ UNCHANGED <<product, shadow, clock, ops, overlapped, faults, identifier>>

\* the INSERTs into product_field_versions and their commit
insert_versions(t) ==
  /\ pc[t] = "stamped"
  /\ ledger' = ledger \o VersionRows(job[t].product_id, job[t].diffs, job[t].changed_by,
                                     job[t].now)
  /\ seq' = seq + Len(job[t].diffs)
  /\ Return(t, job[t], "ok")
  /\ UNCHANGED <<product, shadow, clock, ops, overlapped, faults, identifier>>

\* get_versions(product_id, limit): the newest entries first; product_id is
\* {} for None and {n} for the integer n, and the filter is applied only when
\* product_id is truthy
Reverse(sq) == [k \in 1..Len(sq) |-> sq[Len(sq) + 1 - k]]
Truthy(product_id) == product_id # {} /\ product_id # {0}
get_versions(product_id, limit) ==
  LET selected == IF Truthy(product_id)
                  THEN SelectSeq(ledger, LAMBDA e : e.product_id \in product_id)
                  ELSE ledger
      ordered == Reverse(selected)
  IN  IF limit < 0 \/ limit >= Len(ordered) THEN ordered ELSE SubSeq(ordered, 1, limit)

HasVersion(vid) == \E k \in 1..Len(ledger) : ledger[k].id = vid
get_version_by_id(vid) == ledger[CHOOSE k \in 1..Len(ledger) : ledger[k].id = vid]

\* an UPDATE that binds the value the entry came from
RolledBackRowsToNew(product_id, d) ==
  [r \in 1..Len(product.rows) |->
     IF r \in Matching(product, product_id)
     THEN [product.rows[r] EXCEPT !.vals[d.field] =
             ApplyAffinity(ColumnOf(product, d.field).type, d.old)]
     ELSE product.rows[r]]

\* UPDATE product SET <field> = ? WHERE id = ?, binding the entry's old
\* value; d is the diff (field, new, old) the rollback goes on to log
RolledBackRows(product_id, d) ==
  [r \in 1..Len(product.rows) |->
     IF r \in Matching(product, product_id)
     THEN [product.rows[r] EXCEPT !.vals[d.field] =
             ApplyAffinity(ColumnOf(product, d.field).type, d.new)]
     ELSE product.rows[r]]

\* the value of the entry's field in the entry's record, before the UPDATE
FieldBefore(product_id, field) ==
  IF Matching(product, product_id) = {} THEN NoValue
  ELSE product.rows[Min(Matching(product, product_id))].vals[field]

\* POST /rollback: get_version_by_id(vid)
rollback_version(t, vid) ==
  /\ Begin(t)
  /\ LET j == Request("rollback", vid, "")
     IN  IF ~HasVersion(vid)
         THEN Return(t, j, "VersionNotFound")
         ELSE LET v == get_version_by_id(vid)
              IN  Goto(t, "selected", [j EXCEPT
                    !.product_id = v.product_id,
                    !.diffs = <<[field |-> v.field_name, old |-> v.new_value,
                                 new |-> v.old_value]>>,
                    !.changed_by = "web"])
  /\ UNCHANGED <<product, shadow, ledger, seq, clock, faults, identifier>>

\* an UPDATE that is taken to succeed whatever the table looks like
rollback_version_update_unchecked(t) ==
  /\ At(t, "rollback", "selected")
  /\ LET j == job[t]
         d == j.diffs[1]
     IN  /\ product' = IF product.exists /\ HasColumn(product, d.field)
                          /\ HasColumn(product, "id")
                       THEN [product EXCEPT !.rows = RolledBackRows(j.product_id, d)]
                       ELSE product
         /\ Goto(t, "log", j)
  /\ UNCHANGED <<shadow, ledger, seq, clock, ops, overlapped, faults, identifier>>

\* the UPDATE of rollback_version and its commit.  Nothing is checked before
\* it: a table, a field or an id column that is not there makes SQLite raise
\* (no such table, no such column), and the route reports every exception
\* the same way
rollback_version_update(t) ==
  /\ At(t, "rollback", "selected")
  /\ LET j == job[t]
         d == j.diffs[1]
     IN  IF \/ ~product.exists
            \/ ~HasColumn(product, d.field)
            \/ ~HasColumn(product, "id")
            \/ \E r \in 1..Len(product.rows) : NullInto(RolledBackRows(j.product_id, d)[r])
         THEN Return(t, j, "error") /\ UNCHANGED product
         ELSE /\ product' = [product EXCEPT !.rows = RolledBackRows(j.product_id, d)]
              /\ Goto(t, "log", [j EXCEPT !.prev = FieldBefore(j.product_id, d.field)])
  /\ UNCHANGED <<shadow, ledger, seq, clock, ops, overlapped, faults, identifier>>

\* ---------------------------------------------------------- schema changes
\* an ADD COLUMN that writes the default over every column of every row
add_column_sqlite_rewriting(name, ctype, dflt) ==
  LET col == Column(name, ctype, IF dflt = <<>> THEN <<>> ELSE Quoted(dflt), FALSE)
  IN  [exists |-> TRUE,
       cols |-> Append(product.cols, col),
       rows |-> [r \in 1..Len(product.rows) |->
                   [rowid |-> product.rows[r].rowid,
                    vals |-> [n \in DOMAIN product.rows[r].vals \cup {name} |->
                                DefaultValue(col)]]]]

\* ALTER TABLE product ADD COLUMN <name> <type> [DEFAULT '<default>']
add_column_sqlite(name, ctype, dflt) ==
  LET col == Column(name, ctype, IF dflt = <<>> THEN <<>> ELSE Quoted(dflt), FALSE)
  IN  [exists |-> TRUE,
       cols |-> Append(product.cols, col),
       rows |-> [r \in 1..Len(product.rows) |->
                   [rowid |-> product.rows[r].rowid,
                    vals |-> [n \in DOMAIN product.rows[r].vals \cup {name} |->
                                IF n = name THEN DefaultValue(col)
                                ELSE product.rows[r].vals[n]]]]]

\* POST /schema/add
add_column(t, name, ctype, dflt) ==
  /\ Begin(t)
  /\ LET j == Request("add_column", 0, name)
     IN  IF ~product.exists \/ HasColumn(product, name) \/ ~QuotesPaired(dflt)
         THEN /\ Return(t, j, "error")
              /\ UNCHANGED product
         ELSE /\ product' = add_column_sqlite(name, ctype, dflt)
              /\ Return(t, j, "ok")
  /\ UNCHANGED <<shadow, ledger, seq, clock, faults, identifier>>

\* CREATE TABLE product_new (<name> <type> [DEFAULT '<dflt>'], ...) is
\* rejected when the table exists, the column list is empty, a name repeats,
\* or a default carries a quote that ends its literal (as every default does
\* that table_info has reported, quotes included)
CreateFails(new_columns) ==
  \/ shadow.exists
  \/ new_columns = <<>>
  \/ \E j, k \in 1..Len(new_columns) : j # k /\ new_columns[j].name = new_columns[k].name
  \/ \E k \in 1..Len(new_columns) : ~QuotesPaired(new_columns[k].dflt)

\* a drop that goes on to the rebuild whatever the column list looks like
drop_column_unchecked(t, col) ==
  /\ Begin(t)
  /\ LET old == get_table_info
         kept == SelectSeq(old, LAMBDA c : c.name # col)
         new == [k \in 1..Len(kept) |->
                   [name |-> kept[k].name, type |-> kept[k].type, dflt |-> kept[k].dflt]]
     IN  Goto(t, "begun", [Request("drop_column", 0, col) EXCEPT
                             !.new_columns = new, !.before = product])
  /\ UNCHANGED <<product, shadow, ledger, seq, clock, faults, identifier>>

\* POST /schema/drop: the column list without the column
drop_column(t, col) ==
  /\ Begin(t)
  /\ LET old == get_table_info
         kept == SelectSeq(old, LAMBDA c : c.name # col)
         new == [k \in 1..Len(kept) |->
                   [name |-> kept[k].name, type |-> kept[k].type, dflt |-> kept[k].dflt]]
         j == [Request("drop_column", 0, col) EXCEPT !.new_columns = new, !.before = product]
     IN  IF Len(new) = Len(old)
         THEN Return(t, j, "ColumnNotFound")
         ELSE Goto(t, "begun", j)
  /\ UNCHANGED <<product, shadow, ledger, seq, clock, faults, identifier>>

\* POST /schema/modify: the column list with the column's entry replaced
modify_column(t, col_old, col_new, col_type, col_default) ==
  /\ Begin(t)
  /\ LET old == get_table_info
         new == [k \in 1..Len(old) |->
                   IF old[k].name = col_old
                   THEN [name |-> col_new, type |-> col_type, dflt |-> col_default]
                   ELSE [name |-> old[k].name, type |-> old[k].type, dflt |-> old[k].dflt]]
     IN  Goto(t, "begun", [Request("modify_column", 0, col_old) EXCEPT
                             !.new_columns = new, !.before = product])
  /\ UNCHANGED <<product, shadow, ledger, seq, clock, faults, identifier>>

\* first statement of recreate_table_with_schema: the shadow table is
\* created and, no transaction being open, committed at once
recreate_table_with_schema(t) ==
  /\ pc[t] = "begun"
  /\ LET j == job[t]
     IN  IF CreateFails(j.new_columns)
         THEN /\ Return(t, j, "MigrationFailure")
              /\ UNCHANGED shadow
         ELSE /\ shadow' = [exists |-> TRUE,
                            cols |-> [k \in 1..Len(j.new_columns) |->
                                        Column(j.new_columns[k].name, j.new_columns[k].type,
                                               IF j.new_columns[k].dflt = <<>> THEN <<>>
                                               ELSE Quoted(j.new_columns[k].dflt), FALSE)],
                            rows |-> <<>>]
              /\ Goto(t, "created", j)
  /\ UNCHANGED <<product, ledger, seq, clock, ops, overlapped, faults, identifier>>

\* PRAGMA table_info(product): the new column names the old table has too
rebuild_table_info(t) ==
  /\ pc[t] = "created"
  /\ Goto(t, "compared", [job[t] EXCEPT !.common =
       SelectSeq([k \in 1..Len(job[t].new_columns) |-> job[t].new_columns[k].name],
                 LAMBDA n : product.exists /\ HasColumn(product, n))])
  /\ UNCHANGED <<product, shadow, ledger, seq, clock, ops, overlapped, faults, identifier>>

\* INSERT INTO product_new (common) SELECT common FROM product
CopiedRows(common) ==
  [r \in 1..Len(product.rows) |->
     [rowid |-> r,
      vals |-> [n \in Range(NamesOf(shadow.cols)) |->
                  IF n \in Range(common)
                  THEN ApplyAffinity(ColumnOf(shadow, n).type, product.rows[r].vals[n])
                  ELSE DefaultValue(ColumnOf(shadow, n))]]]

\* with common columns the INSERT opens a transaction, and copy, DROP TABLE
\* and RENAME are committed together
rebuild_copy_and_swap(t) ==
  /\ pc[t] = "compared"
  /\ job[t].common # <<>>
  /\ IF ~product.exists \/ \E k \in 1..Len(job[t].common) : ~HasColumn(product, job[t].common[k])
     THEN /\ Return(t, job[t], "MigrationFailure")
          /\ UNCHANGED <<product, shadow>>
     ELSE /\ product' = [exists |-> TRUE, cols |-> shadow.cols,
                         rows |-> CopiedRows(job[t].common)]
          /\ shadow' = NoTable
          /\ Return(t, job[t], "ok")
  /\ UNCHANGED <<ledger, seq, clock, ops, overlapped, faults, identifier>>

\* without common columns there is no INSERT: DROP TABLE product commits alone
rebuild_drop(t) ==
  /\ pc[t] = "compared"
  /\ job[t].common = <<>>
  /\ IF ~product.exists
     THEN /\ Return(t, job[t], "MigrationFailure")
          /\ UNCHANGED product
     ELSE /\ product' = NoTable
          /\ Goto(t, "dropped", job[t])
  /\ UNCHANGED <<shadow, ledger, seq, clock, ops, overlapped, faults, identifier>>

\* ALTER TABLE product_new RENAME TO product, committed alone
rebuild_rename(t) ==
  /\ pc[t] = "dropped"
  /\ IF product.exists \/ ~shadow.exists
     THEN /\ Return(t, job[t], "MigrationFailure")
          /\ UNCHANGED <<product, shadow>>
     ELSE /\ product' = shadow
          /\ shadow' = NoTable
          /\ Return(t, job[t], "ok")
  /\ UNCHANGED <<ledger, seq, clock, ops, overlapped, faults, identifier>>

\* ------------------------------------------------------------- raw scripts
\* statements the script field of the schema page may carry; the last one
\* does not parse
SqlStatements ==
  {"DELETE FROM product_field_versions",
   "UPDATE product_field_versions SET new_value = 'zz' WHERE id = 1",
   "UPDATE product SET Vendor_name = 'zz'",
   "INSERT INTO product (id, Vendor_name) VALUES (7, 'q')",
   "ALTER TABLE product ADD COLUMN c TEXT NOT NULL DEFAULT 'x'",
   "SELEC"}
\* a script is one statement, or a statement followed by the one that does
\* not parse, or nothing at all
SqlScripts ==
  {<<>>} \cup {<<s>> : s \in SqlStatements}
         \cup {<<s, "SELEC">> : s \in SqlStatements \ {"SELEC"}}

\* the row of INSERT INTO product (id, Vendor_name) VALUES (7, 'q')
ScriptRow ==
  LET keyed == ColumnOf(product, "id").pk /\ ColumnOf(product, "id").type = "INTEGER"
      rowid == IF keyed THEN 7 ELSE MaxRowid(product.rows) + 1
  IN  [rowid |-> rowid,
       vals |-> [name \in Range(NamesOf(product.cols)) |->
          IF name = "id" THEN ApplyAffinity(ColumnOf(product, "id").type, IntV(7))
          ELSE IF name = "Vendor_name"
          THEN ApplyAffinity(ColumnOf(product, "Vendor_name").type, TextV(<<"q">>))
          ELSE DefaultValue(ColumnOf(product, name))]]

\* what one statement of a script does to the two tables: ok is FALSE, and
\* nothing is written, where SQLite raises
Executed(stmt) ==
  LET failed == [ok |-> FALSE, product |-> product, ledger |-> ledger]
  IN  CASE stmt = "DELETE FROM product_field_versions" ->
             [ok |-> TRUE, product |-> product, ledger |-> <<>>]
        [] stmt = "UPDATE product_field_versions SET new_value = 'zz' WHERE id = 1" ->
             [ok |-> TRUE, product |-> product,
              ledger |-> [k \in 1..Len(ledger) |->
                            IF ledger[k].id = 1
                            THEN [ledger[k] EXCEPT !.new_value = TextV(<<"z", "z">>)]
                            ELSE ledger[k]]]
        [] stmt = "UPDATE product SET Vendor_name = 'zz'" ->
             IF ~product.exists \/ ~HasColumn(product, "Vendor_name") THEN failed
             ELSE [ok |-> TRUE, ledger |-> ledger,
                   product |-> [product EXCEPT !.rows =
                     [r \in 1..Len(product.rows) |->
                        [product.rows[r] EXCEPT !.vals["Vendor_name"] =
                           ApplyAffinity(ColumnOf(product, "Vendor_name").type,
                                         TextV(<<"z", "z">>))]]]]
        [] stmt = "INSERT INTO product (id, Vendor_name) VALUES (7, 'q')" ->
             IF \/ ~product.exists
                \/ ~HasColumn(product, "id") \/ ~HasColumn(product, "Vendor_name")
             THEN failed
             ELSE IF \/ NullInto(ScriptRow)
                     \/ /\ ColumnOf(product, "id").pk
                        /\ \E r \in 1..Len(product.rows) :
                             product.rows[r].vals["id"] = ScriptRow.vals["id"]
             THEN failed
             ELSE [ok |-> TRUE, ledger |-> ledger,
                   product |-> [product EXCEPT !.rows = Append(@, ScriptRow)]]
        [] stmt = "ALTER TABLE product ADD COLUMN c TEXT NOT NULL DEFAULT 'x'" ->
             IF ~product.exists \/ HasColumn(product, "c") THEN failed
             ELSE LET col == [Column("c", "TEXT", Quoted(<<"x">>), FALSE) EXCEPT
                                !.notnull = TRUE]
                  IN  [ok |-> TRUE, ledger |-> ledger,
                       product |-> [product EXCEPT
                         !.cols = Append(@, col),
                         !.rows = [r \in 1..Len(product.rows) |->
                                     [rowid |-> product.rows[r].rowid,
                                      vals |-> [n \in DOMAIN product.rows[r].vals \cup {"c"} |->
                                                  IF n = "c" THEN DefaultValue(col)
                                                  ELSE product.rows[r].vals[n]]]]]]
        [] OTHER -> failed

\* conn.executescript runs the statements one after the other, each
\* committed on its own; the statement that raises ends the script
executescript(t, j) ==
  LET done == Executed(Head(j.script))
      rest == [j EXCEPT !.script = Tail(j.script)]
  IN  /\ product' = done.product
      /\ ledger' = done.ledger
      /\ IF ~done.ok THEN Return(t, j, "error")
         ELSE IF rest.script = <<>> THEN Return(t, j, "ok")
         ELSE Goto(t, "script", rest)

\* POST /schema/run-sql, up to the end of the first statement
run_sql(t, sql_script) ==
  /\ Begin(t)
  /\ LET j == [Request("run_sql", 0, "") EXCEPT !.script = sql_script]
     IN  IF sql_script = <<>>
         THEN /\ Return(t, j, "error")
              /\ UNCHANGED <<product, ledger>>
         ELSE executescript(t, j)
  /\ UNCHANGED <<shadow, seq, clock, faults, identifier>>

\* the next statement of the script
run_sql_statement(t) ==
  /\ pc[t] = "script"
  /\ executescript(t, job[t])
  /\ UNCHANGED <<shadow, seq, clock, ops, overlapped, faults, identifier>>

\* ------------------------------------------------------------------ faults
\* the next statement of a running handler raises, or its thread stops:
\* what is committed stays, an open transaction is rolled back
statement_fails(t) ==
  /\ pc[t] # "idle"
  /\ faults < MaxFaults
  /\ faults' = faults + 1
  /\ Return(t, job[t], IF job[t].op \in {"drop_column", "modify_column"}
                       THEN "MigrationFailure" ELSE "fault")
  /\ UNCHANGED <<product, shadow, ledger, seq, clock, ops, overlapped, identifier>>

\* ids a request can name: those in use and the next one
IdsInUse ==
  IF product.exists /\ HasColumn(product, "id")
  THEN {product.rows[r].vals["id"].i :
          r \in {q \in 1..Len(product.rows) :
                 product.rows[q].vals["id"].t \in {"int", "real"}}}
  ELSE {}
ProductIds == 1..(MaxRowid(product.rows) + 1) \cup IdsInUse
VersionIds == 1..(seq + 1)
\* the default field of the modify form: empty, a value, or the value as the
\* schema page shows it for a column that has one, quotes included
ModifyDefaults == DefaultVals \cup {Quoted(d) : d \in DefaultVals \ {<<>>}}

\* ----------------------------------------------------------- specification
Init ==
  /\ product = PRODUCT_TABLE_SQL
  /\ shadow = NoTable
  /\ ledger = <<>>
  /\ seq = 0
  /\ clock = 0
  /\ pc = [t \in Requests |-> "idle"]
  /\ job = [t \in Requests |-> NoJob]
  /\ last = Outcome(Request("init", 0, ""), "ok")
  /\ ops = 0
  /\ overlapped = FALSE
  /\ faults = 0
  /\ identifier = NoName

\* the statements between a handler's first one and its return
Continue(t) ==
  \/ add_product_insert(t)
  \/ edit_product_select(t)
  \/ edit_product_update(t)
  \/ delete_product_delete(t)
  \/ rollback_version_update(t)
  \/ record_field_versions(t)
  \/ insert_versions(t)
  \/ recreate_table_with_schema(t)
  \/ rebuild_table_info(t)
  \/ rebuild_copy_and_swap(t)
  \/ rebuild_drop(t)
  \/ rebuild_rename(t)

\* the seven operations on records and columns
HandlerStep(t) ==
  \/ \E form \in Forms : add_product(t, form)
  \/ \E product_id \in ProductIds, form \in Forms : edit_product(t, product_id, form)
  \/ \E product_id \in ProductIds : delete_product(t, product_id)
  \/ \E vid \in VersionIds : rollback_version(t, vid)
  \/ \E name \in ColumnNames, ctype \in ColumnTypes, dflt \in DefaultVals :
       add_column(t, name, ctype, dflt)
  \/ \E col \in ColumnNames : drop_column(t, col)
  \/ \E col_old \in ColumnNames, col_new \in ColumnNames, col_type \in ColumnTypes,
        col_default \in ModifyDefaults :
       modify_column(t, col_old, col_new, col_type, col_default)
  \/ Continue(t)

HandlerNext == \E t \in Requests : HandlerStep(t)

HandlerSpec == Init /\ [][HandlerNext]_vars

\* every handler that writes
Next ==
  \/ HandlerNext
  \/ \E t \in Requests :
       \/ \E sql_script \in SqlScripts : run_sql(t, sql_script)
       \/ run_sql_statement(t)

Spec == Init /\ [][Next]_vars

\* a catalogue that holds one record, created on the default schema
CreatedInit ==
  \E val \in FormVals :
    LET v == IF val = <<>> THEN Null ELSE TextV(val)
    IN  /\ product = [PRODUCT_TABLE_SQL EXCEPT !.rows =
                        <<[rowid |-> 1, vals |-> [id |-> IntV(1), Vendor_name |-> v]]>>]
        /\ shadow = NoTable
        /\ ledger = <<[id |-> 1, product_id |-> 1, field_name |-> "Vendor_name",
                       old_value |-> Null, new_value |-> Stored(v),
                       changed_at |-> 1, changed_by |-> "create"]>>
        /\ seq = 1
        /\ clock = 1
        /\ pc = [t \in Requests |-> "idle"]
        /\ job = [t \in Requests |-> NoJob]
        /\ last = Outcome([Request("add_product", 1, "") EXCEPT !.product_id = 1], "ok")
        /\ ops = 0
        /\ overlapped = FALSE
        /\ faults = 0
        /\ identifier = NoName

\* the ledger write that ends add_product, edit_product and rollback
Logs(t) == record_field_versions(t) \/ insert_versions(t)

\* the rebuild of drop_column and modify_column up to the copy: all of it
\* where the old and the new table share a column, as they do whenever the
\* column id is left alone
RebuildsByCopy(t) ==
  \/ recreate_table_with_schema(t)
  \/ rebuild_table_info(t)
  \/ rebuild_copy_and_swap(t)

\* a catalogue whose one record was created with one value and edited to
\* another, a word or a numeral: two entries of the ledger tell of it
EditedInit ==
  \E val1 \in FormVals, val2 \in {<<"a">>, <<"0", "7">>} :
    LET v1 == IF val1 = <<>> THEN Null ELSE TextV(val1)
        v2 == IF val2 = <<>> THEN Null ELSE TextV(val2)
    IN  /\ Differs(v1, v2)
        /\ product = [PRODUCT_TABLE_SQL EXCEPT !.rows =
                        <<[rowid |-> 1, vals |-> [id |-> IntV(1), Vendor_name |-> v2]]>>]
        /\ shadow = NoTable
        /\ ledger = <<[id |-> 1, product_id |-> 1, field_name |-> "Vendor_name",
                       old_value |-> Null, new_value |-> Stored(v1),
                       changed_at |-> 1, changed_by |-> "create"],
                      [id |-> 2, product_id |-> 1, field_name |-> "Vendor_name",
                       old_value |-> Stored(v1), new_value |-> Stored(v2),
                       changed_at |-> 2, changed_by |-> "edit"]>>
        /\ seq = 2
        /\ clock = 2
        /\ pc = [t \in Requests |-> "idle"]
        /\ job = [t \in Requests |-> NoJob]
        /\ last = Outcome([Request("edit_product", 1, "") EXCEPT !.product_id = 1], "ok")
        /\ ops = 0
        /\ overlapped = FALSE
        /\ faults = 0
        /\ identifier = NoName

\* the record of EditedInit is edited and rolled back while its column
\* Vendor_name is retyped
RetypeStep(t) ==
  \/ \E product_id \in ProductIds, form \in Forms : edit_product(t, product_id, form)
  \/ edit_product_select(t)
  \/ edit_product_update(t)
  \/ \E vid \in VersionIds : rollback_version(t, vid)
  \/ rollback_version_update(t)
  \/ Logs(t)
  \/ \E col_type \in TypeNames :
       modify_column(t, "Vendor_name", "Vendor_name", col_type, <<>>)
  \/ RebuildsByCopy(t)

RetypeNext == \E t \in Requests : RetypeStep(t)
RetypeSpec == EditedInit /\ [][RetypeNext]_vars

\* a catalogue with a cents column: the default schema after
\* add_column('price_cents', 'INTEGER'), written through the price field
PriceInit ==
  /\ product = [PRODUCT_TABLE_SQL EXCEPT
                  !.cols = Append(@, Column("price_cents", "INTEGER", <<>>, FALSE))]
  /\ shadow = NoTable
  /\ ledger = <<>>
  /\ seq = 0
  /\ clock = 0
  /\ pc = [t \in Requests |-> "idle"]
  /\ job = [t \in Requests |-> NoJob]
  /\ last = Outcome(Request("add_column", 0, "price_cents"), "ok")
  /\ ops = 0
  /\ overlapped = FALSE
  /\ faults = 0
  /\ identifier = NoName

PriceForms == {[Vendor_name |-> <<"a">>, price |-> price_raw] : price_raw \in PriceVals}

PriceNext ==
  \E t \in Requests :
    \/ \E form \in PriceForms : add_product(t, form)
    \/ add_product_insert(t)
    \/ \E product_id \in ProductIds, form \in PriceForms : edit_product(t, product_id, form)
    \/ edit_product_select(t)
    \/ edit_product_update(t)
    \/ Logs(t)

PriceSpec == PriceInit /\ [][PriceNext]_vars

\* a catalogue with an integer column: the default schema after
\* add_column('c', 'INTEGER'), and the record handlers at work on it
TypedInit ==
  /\ product = [PRODUCT_TABLE_SQL EXCEPT
                  !.cols = Append(@, Column("c", "INTEGER", <<>>, FALSE))]
  /\ shadow = NoTable
  /\ ledger = <<>>
  /\ seq = 0
  /\ clock = 0
  /\ pc = [t \in Requests |-> "idle"]
  /\ job = [t \in Requests |-> NoJob]
  /\ last = Outcome(Request("add_column", 0, "c"), "ok")
  /\ ops = 0
  /\ overlapped = FALSE
  /\ faults = 0
  /\ identifier = NoName

\* forms that carry a value, the empty one among them, for both columns
TypedForms == [{"Vendor_name", "c"} -> {<<>>, <<"a">>, <<"0", "7">>}]

TypedNext ==
  \E t \in Requests :
    \/ \E form \in TypedForms : add_product(t, form)
    \/ add_product_insert(t)
    \/ \E product_id \in ProductIds, form \in TypedForms : edit_product(t, product_id, form)
    \/ edit_product_select(t)
    \/ edit_product_update(t)
    \/ Logs(t)

TypedSpec == TypedInit /\ [][TypedNext]_vars

\* the ledger called on its own: record_field_versions(product_id, diffs,
\* changed_by) for a few lists of diffs, the empty one among them
DiffLists ==
  LET d1 == [field |-> "Vendor_name", old |-> Null, new |-> TextV(<<"a">>)]
      d2 == [field |-> "c", old |-> IntV(7), new |-> Null]
  IN  {<<>>, <<d1>>, <<d1, d2>>, <<d2, d1>>}

record_call(t, product_id, diffs, changed_by) ==
  /\ Begin(t)
  /\ Goto(t, "log", [Request("record", product_id, "") EXCEPT
                       !.product_id = product_id,
                       !.diffs = diffs,
                       !.changed_by = changed_by])
  /\ UNCHANGED <<product, shadow, ledger, seq, clock, faults, identifier>>

LedgerNext ==
  \E t \in Requests :
    \/ \E product_id \in 1..2, diffs \in DiffLists, changed_by \in {"web", "edit"} :
         record_call(t, product_id, diffs, changed_by)
    \/ Logs(t)

LedgerSpec == Init /\ [][LedgerNext]_vars

\* a catalogue whose second column c has any of the type names, holding the
\* record that add_product creates from an empty form, and edits of it
EditInit ==
  \E ctype \in TypeNames :
    /\ product = [exists |-> TRUE,
                  cols |-> Append(PRODUCT_TABLE_SQL.cols, Column("c", ctype, <<>>, FALSE)),
                  rows |-> <<[rowid |-> 1,
                             vals |-> [id |-> IntV(1), Vendor_name |-> Null, c |-> Null]]>>]
    /\ shadow = NoTable
    /\ ledger = <<[id |-> 1, product_id |-> 1, field_name |-> "Vendor_name",
                   old_value |-> Null, new_value |-> Null,
                   changed_at |-> 1, changed_by |-> "create"],
                  [id |-> 2, product_id |-> 1, field_name |-> "c",
                   old_value |-> Null, new_value |-> Null,
                   changed_at |-> 1, changed_by |-> "create"]>>
    /\ seq = 2
    /\ clock = 1
    /\ pc = [t \in Requests |-> "idle"]
    /\ job = [t \in Requests |-> NoJob]
    /\ last = Outcome([Request("add_product", 1, "") EXCEPT !.product_id = 1], "ok")
    /\ ops = 0
    /\ overlapped = FALSE
    /\ faults = 0
    /\ identifier = NoName

\* an edit request carries a value for some of the two fields
EditForms == UNION {[fields -> {<<>>, <<"0", "7">>, <<"N", "o", "n", "e">>}] :
                      fields \in SUBSET {"Vendor_name", "c"}}

EditNext ==
  \E t \in Requests :
    \/ \E product_id \in ProductIds, form \in EditForms : edit_product(t, product_id, form)
    \/ edit_product_select(t)
    \/ edit_product_update(t)
    \/ Logs(t)

EditSpec == EditInit /\ [][EditNext]_vars

\* columns added under any type name, and records written into them
FreeTypeNext ==
  \E t \in Requests :
    \/ \E name \in ColumnNames, ctype \in TypeNames, dflt \in DefaultVals :
         add_column(t, name, ctype, dflt)
    \/ \E form \in Forms : add_product(t, form)
    \/ add_product_insert(t)
    \/ \E product_id \in ProductIds, form \in Forms : edit_product(t, product_id, form)
    \/ edit_product_select(t)
    \/ edit_product_update(t)
    \/ Logs(t)

FreeTypeSpec == Init /\ [][FreeTypeNext]_vars

\* records created, edited and rolled back on the default schema
RecordStep(t) ==
  \/ \E form \in Forms : add_product(t, form)
  \/ add_product_insert(t)
  \/ \E product_id \in ProductIds, form \in Forms : edit_product(t, product_id, form)
  \/ edit_product_select(t)
  \/ edit_product_update(t)
  \/ \E vid \in VersionIds : rollback_version(t, vid)
  \/ rollback_version_update(t)
  \/ Logs(t)

RecordNext == \E t \in Requests : RecordStep(t)
RecordSpec == Init /\ [][RecordNext]_vars

\* schema changes that leave the column id alone, and records created
\* between them
OtherNames == ColumnNames \ {"id"}

OtherColumnsNext ==
  \E t \in Requests :
    \/ \E name \in OtherNames, ctype \in ColumnTypes, dflt \in DefaultVals :
         add_column(t, name, ctype, dflt)
    \/ \E col \in OtherNames : drop_column(t, col)
    \/ \E col_old \in OtherNames, col_new \in OtherNames, col_type \in ColumnTypes,
          col_default \in ModifyDefaults :
         modify_column(t, col_old, col_new, col_type, col_default)
    \/ RebuildsByCopy(t)
    \/ \E form \in Forms : add_product(t, form)
    \/ add_product_insert(t)
    \/ Logs(t)

OtherColumnsSpec == Init /\ [][OtherColumnsNext]_vars

\* the add-column form at work beside creations and drops of the columns it
\* adds, the requests overlapping
AddColumnNext ==
  \E t \in Requests :
    \/ \E name \in OtherNames, ctype \in ColumnTypes, dflt \in DefaultVals :
         add_column(t, name, ctype, dflt)
    \/ \E col \in OtherNames : drop_column(t, col)
    \/ RebuildsByCopy(t)
    \/ \E form \in Forms : add_product(t, form)
    \/ add_product_insert(t)
    \/ Logs(t)

AddColumnSpec == Init /\ [][AddColumnNext]_vars

\* names on their way into SQL text: every name of at most MaxLen characters
\* over NameChars is typed into the add-column form; add_column strips it and
\* sanitizes it, and add_column_sqlite sanitizes the result once more
RawNames == UNION {[1..n -> NameChars] : n \in 0..MaxLen}

SanitizeInit ==
  /\ product = PRODUCT_TABLE_SQL
  /\ shadow = NoTable
  /\ ledger = <<>>
  /\ seq = 0
  /\ clock = 0
  /\ pc = [t \in Requests |-> "idle"]
  /\ job = [t \in Requests |-> NoJob]
  /\ last = Outcome(Request("init", 0, ""), "ok")
  /\ ops = 0
  /\ overlapped = FALSE
  /\ faults = 0
  /\ identifier \in {[raw |-> raw, name |-> raw, calls |-> 0] : raw \in RawNames}

sanitize_request ==
  /\ identifier.calls < 2
  /\ identifier' = [raw |-> identifier.raw,
                     name |-> IF identifier.calls = 0
                              THEN sanitize_identifier(strip(identifier.raw))
                              ELSE sanitize_identifier(identifier.name),
                     calls |-> identifier.calls + 1]
  /\ UNCHANGED <<product, shadow, ledger, seq, clock, pc, job, last, ops,
                 overlapped, faults>>

SanitizeNext == sanitize_request
SanitizeSpec == SanitizeInit /\ [][SanitizeNext]_vars

\* the seven operations, with a statement that fails or a thread that stops
NextWithFaults == \E t \in Requests : HandlerStep(t) \/ statement_fails(t)
FaultSpec == Init /\ [][NextWithFaults]_vars

\* the seven operations on a catalogue that holds one record
CreatedSpec == CreatedInit /\ [][HandlerNext]_vars

\* columns of the catalogue of CreatedInit are dropped and added while
\* entries of its ledger are rolled back
DropNext ==
  \E t \in Requests :
    \/ \E col \in ColumnNames : drop_column(t, col)
    \/ RebuildsByCopy(t)
    \/ rebuild_drop(t)
    \/ rebuild_rename(t)
    \/ \E name \in ColumnNames, ctype \in ColumnTypes : add_column(t, name, ctype, <<>>)
    \/ \E vid \in VersionIds : rollback_version(t, vid)
    \/ rollback_version_update(t)
    \/ Logs(t)

DropSpec == CreatedInit /\ [][DropNext]_vars

\* the seven operations on the catalogue of CreatedInit, each with one
\* request or two, overlapping, and with statements that fail
SevenNext ==
  \E t \in Requests :
    \/ add_product(t, [Vendor_name |-> <<"0", "7">>])
    \/ \E product_id \in {1, 2} : edit_product(t, product_id, [Vendor_name |-> <<>>])
    \/ delete_product(t, 1)
    \/ \E vid \in VersionIds : rollback_version(t, vid)
    \/ add_column(t, "c", "INTEGER", <<"0", "7">>)
    \/ \E col \in {"id", "Vendor_name"} : drop_column(t, col)
    \/ modify_column(t, "Vendor_name", "c", "INTEGER", <<>>)
    \/ Continue(t)
    \/ statement_fails(t)

SevenSpec == CreatedInit /\ [][SevenNext]_vars

\* ------------------------------------------------------------------ claims
ColumnSet(tbl) == Range(NamesOf(tbl.cols))
IsPrefix(a, b) == Len(a) <= Len(b) /\ SubSeq(b, 1, Len(a)) = a
\* a request has just been taken up, by the slot Taker
Called(op) == ops' = ops + 1 /\ last'.op = op
Taker == CHOOSE t \in Requests : pc[t] = "idle" /\ \A u \in Requests : u < t => pc[u] # "idle"
\* the handler of request t, standing at a statement of op, runs it
Runs(t, op, where) ==
  /\ At(t, op, where)
  /\ <<pc'[t], job'[t]>> # <<pc[t], job[t]>>
  /\ faults' = faults
\* the requests so far were served one at a time, the single writer of a
\* table the catalogue is written for: none arrived while another was served
OneAtATime == ~overlapped
\* the handler of request t returns
Returns(t) == pc[t] # "idle" /\ pc'[t] = "idle"

\* C1: with requests served one at a time, when a step of the rebuild made
\* by drop_column or modify_column fails, the product table (columns and
\* rows) is what it was before the call
C1_RebuildAtomicity ==
  [][\A t \in Requests :
       (/\ OneAtATime'
        /\ job[t].op \in {"drop_column", "modify_column"}
        /\ Returns(t)
        /\ last'.outcome = "MigrationFailure")
       => product' = job[t].before]_vars

\* C2: the ledger only grows: every entry that existed before a step exists
\* after it, unchanged and at the same place
C2_LedgerAppendOnly == [][IsPrefix(ledger, ledger')]_vars

\* C2 witness: a column has been dropped and the ledger still holds an entry
\* for it
C2_Witness ==
  /\ last.op = "drop_column" /\ last.outcome = "ok"
  /\ ~HasColumn(product, last.col)
  /\ \E k \in 1..Len(ledger) : ledger[k].field_name = last.col

\* C3: the product table always has exactly one primary-key column, and it
\* is id
C3_OnePrimaryKey ==
  product.exists =>
    /\ Cardinality({k \in 1..Len(product.cols) : product.cols[k].pk}) = 1
    /\ \E k \in 1..Len(product.cols) : product.cols[k].pk /\ product.cols[k].name = "id"

\* C4: a successful rebuild keeps every row, and for every column name found
\* in the old and in the new schema every row reads the same value, in
\* canonical string form, as before
C4_RebuildFidelity ==
  [][\A t \in Requests :
       (pc[t] = "compared" /\ Returns(t) /\ last'.outcome = "ok")
       => \A n \in ColumnSet(product) \cap ColumnSet(product') :
            /\ Len(product'.rows) = Len(product.rows)
            /\ \A r \in 1..Len(product.rows) :
                 Str(product'.rows[r].vals[n]) = Str(product.rows[r].vals[n])]_vars

MostRecent(v) ==
  \A k \in 1..Len(ledger) :
    (ledger[k].product_id = v.product_id /\ ledger[k].field_name = v.field_name)
      => ledger[k].id <= v.id
\* the rollback of request t, called for entry v, runs its UPDATE on a table
\* that has the entry's field
RolledBack(t, v) ==
  /\ Runs(t, "rollback", "selected")
  /\ HasVersion(job[t].arg) /\ v = get_version_by_id(job[t].arg)
  /\ product.exists /\ HasColumn(product, "id") /\ HasColumn(product, v.field_name)
\* every row of the entry's record reads val in the entry's field
FieldReads(tbl, v, val) ==
  \A r \in Matching(product, v.product_id) : tbl.rows[r].vals[v.field_name] = val
FieldReadsText(tbl, v, stored) ==
  \A r \in Matching(product, v.product_id) : Stored(tbl.rows[r].vals[v.field_name]) = stored
Holds(v) == Matching(product, v.product_id) # {} /\ FieldReadsText(product, v, v.new_value)
\* the diff a rollback of entry v hands to the ledger
Inverse(v) == <<[field |-> v.field_name, old |-> v.new_value, new |-> v.old_value]>>

\* C6 as stated: when the field holds n and the newest entry of the record
\* and field is (o, n), the UPDATE of a rollback of that entry leaves o in
\* the field, and (n, o) is what the rollback hands to the ledger
C6_RollbackSetsOld ==
  [][\A t \in Requests : \A k \in 1..Len(ledger) :
       (RolledBack(t, ledger[k]) /\ Holds(ledger[k]) /\ MostRecent(ledger[k]))
       => /\ FieldReadsText(product', ledger[k], ledger[k].old_value)
          /\ job'[t].diffs = Inverse(ledger[k])]_vars

\* C6 amended: under the same condition the field holds o as the column's
\* type affinity stores it, (n, o) is handed to the ledger and then appended,
\* and, when no other request came in between, the appended entry is one
\* whose rollback, made next, writes the very value the field held before
\* the first rollback
C6_RollbackReversible ==
  [][/\ (Called("rollback") /\ HasVersion(last'.arg))
          => /\ job'[Taker].diffs = Inverse(get_version_by_id(last'.arg))
             /\ job'[Taker].product_id = get_version_by_id(last'.arg).product_id
     /\ \A t \in Requests : \A k \in 1..Len(ledger) :
          (RolledBack(t, ledger[k]) /\ Holds(ledger[k]) /\ MostRecent(ledger[k]))
          => /\ FieldReads(product', ledger[k],
                  ApplyAffinity(ColumnOf(product, ledger[k].field_name).type,
                                ledger[k].old_value))
             /\ pc'[t] = "log"
             /\ job'[t].diffs = Inverse(ledger[k])
     /\ \A t \in Requests :
          Runs(t, "rollback", "stamped")
          => /\ Len(ledger') = Len(ledger) + 1
             /\ ledger'[Len(ledger')].product_id = job[t].product_id
             /\ ledger'[Len(ledger')].field_name = job[t].diffs[1].field
             /\ ledger'[Len(ledger')].old_value = job[t].diffs[1].old
             /\ ledger'[Len(ledger')].new_value = job[t].diffs[1].new
             /\ (/\ OneAtATime'
                 /\ job[t].prev # NoValue
                 /\ Stored(job[t].prev) = job[t].diffs[1].old
                 /\ product.exists /\ HasColumn(product, job[t].diffs[1].field))
                => ApplyAffinity(ColumnOf(product, job[t].diffs[1].field).type,
                                 ledger'[Len(ledger')].old_value) = job[t].prev]_vars

\* C6 witness: the inversion entry appended by a rollback has itself been
\* rolled back, and the field reads what it read before the first rollback
C6_Witness ==
  /\ OneAtATime
  /\ (\A t \in Requests : pc[t] = "idle")
  /\ last.op = "rollback" /\ last.outcome = "ok"
  /\ last.arg = seq - 1
  /\ get_version_by_id(last.arg).changed_by = "web"
  /\ last.prev # NoValue
  /\ Stored(last.prev) = get_version_by_id(last.arg).new_value
  /\ Matching(product, ledger[Len(ledger)].product_id) # {}
  /\ FieldReadsText(product, ledger[Len(ledger)], get_version_by_id(last.arg).old_value)
  /\ get_version_by_id(last.arg).old_value = ledger[2].new_value
  /\ ledger[2].new_value # ledger[2].old_value

\* C7: with requests served one at a time, after a successful rollback of
\* any entry the appended entry's
\* old_value is the value the field held just before the rollback and its
\* new_value is the old_value of the entry rolled back
C7_InversionRecordsPriorValue ==
  [][\A t \in Requests :
       (OneAtATime' /\ Runs(t, "rollback", "stamped") /\ job[t].prev # NoValue)
       => /\ ledger'[Len(ledger')].old_value = Stored(job[t].prev)
          /\ ledger'[Len(ledger')].new_value = get_version_by_id(job[t].arg).old_value]_vars

\* the value the edit form binds for a field
Written(form, f) == Coerce(ColumnOf(product, f), FormGet(form, f)).v
\* the record request t edits, as the table holds it
RowOf(t) == product.rows[Min(Matching(product, job[t].arg))]

\* C8: an edit of an existing record, no other write coming between its
\* SELECT and its UPDATE, hands the ledger exactly one diff for each field
\* of its form whose written value differs in canonical string form from
\* the stored one (field, stored value, written value), none for any other
\* field, and the ledger write appends exactly those diffs
C8_VersionCompleteness ==
  [][/\ Called("edit_product")
          => \A form \in EditForms :
               edit_product(Taker, last'.arg, form)
               => /\ job'[Taker].fields = DOMAIN form
                  /\ \A f \in DOMAIN form \cap ColumnSet(product) :
                       /\ Names(job'[Taker].values, f)
                       /\ Bound(job'[Taker].values, f) = Written(form, f)
     /\ \A t \in Requests :
          (/\ Runs(t, "edit_product", "read")
           /\ Matching(product, job[t].arg) # {} /\ ~Unbound(job[t].values))
          => /\ pc'[t] = "selected"
             /\ job'[t].current_values = RowOf(t).vals
             /\ job'[t].values = job[t].values
             /\ job'[t].fields = job[t].fields
     /\ \A t \in Requests :
          (/\ Runs(t, "edit_product", "selected")
           /\ Matching(product, job[t].arg) # {}
           /\ job[t].current_values = RowOf(t).vals)
          => LET changed == {f \in (ColumnSet(product) \ {"id"}) \cap job[t].fields :
                               Str(RowOf(t).vals[f]) # Str(Bound(job[t].values, f))}
             IN  /\ Len(job'[t].diffs) = Cardinality(changed)
                 /\ \A f \in changed : \E j \in 1..Len(job'[t].diffs) :
                      /\ job'[t].diffs[j].field = f
                      /\ Stored(job'[t].diffs[j].old) = Stored(RowOf(t).vals[f])
                      /\ Stored(job'[t].diffs[j].new) = Stored(Bound(job[t].values, f))
                 /\ job'[t].product_id = (IF changed = {} THEN 0 ELSE job[t].arg)
                 /\ IF changed = {} THEN pc'[t] = "idle" /\ ledger' = ledger
                    ELSE pc'[t] = "log"
     /\ \A t \in Requests :
          Runs(t, "edit_product", "stamped")
          => /\ Len(ledger') = Len(ledger) + Len(job[t].diffs)
             /\ \A j \in 1..Len(job[t].diffs) :
                  /\ ledger'[Len(ledger) + j].product_id = job[t].product_id
                  /\ ledger'[Len(ledger) + j].field_name = job[t].diffs[j].field
                  /\ ledger'[Len(ledger) + j].old_value = Stored(job[t].diffs[j].old)
                  /\ ledger'[Len(ledger) + j].new_value = Stored(job[t].diffs[j].new)]_vars

\* C9: with requests served one at a time, a record write or rollback that
\* has committed its product write does not end without its ledger entries
\* appended
C9_WriteAndLedgerAtomic ==
  [][\A t \in Requests :
       (OneAtATime' /\ pc[t] \in {"log", "stamped"} /\ Returns(t))
       => /\ Len(ledger') = Len(ledger) + Len(job[t].diffs)
          /\ \A k \in 1..Len(job[t].diffs) :
               /\ ledger'[Len(ledger) + k].product_id = job[t].product_id
               /\ ledger'[Len(ledger) + k].field_name = job[t].diffs[k].field]_vars

\* C10: drop_column and modify_column aimed at the primary-key column fail
\* with PrimaryKeyImmutable and leave the table as it was
C10_PrimaryKeyImmutable ==
  [][((Called("drop_column") \/ Called("modify_column"))
        /\ HasColumn(product, last'.col) /\ ColumnOf(product, last'.col).pk)
     => /\ last'.outcome = "PrimaryKeyImmutable"
        /\ pc'[Taker] = "idle"
        /\ product' = product
        /\ shadow' = shadow]_vars

\* C11: drop_column with a name that is not a column of the table answers
\* ColumnNotFound and starts no rebuild: product table, shadow table and
\* ledger are what they were
C11_DropUnknownColumn ==
  [][(Called("drop_column") /\ ~HasColumn(product, last'.col))
     => /\ last'.outcome = "ColumnNotFound"
        /\ pc'[Taker] = "idle"
        /\ product' = product
        /\ shadow' = shadow
        /\ ledger' = ledger]_vars

\* C11 witness: a drop of a name the table does not have has been answered
\* with ColumnNotFound while the table holds a record
C11_Witness ==
  /\ last.op = "drop_column" /\ last.outcome = "ColumnNotFound"
  /\ product.exists /\ ~HasColumn(product, last.col)
  /\ product.rows # <<>>
  /\ \A t \in Requests : pc[t] = "idle"
\* the rows of the table before an ADD COLUMN are there after it, in place,
\* with every value of the columns they had
RowsKept(name) ==
  /\ Len(product'.rows) = Len(product.rows)
  /\ \A r \in 1..Len(product.rows) :
       /\ product'.rows[r].rowid = product.rows[r].rowid
       /\ DOMAIN product'.rows[r].vals = DOMAIN product.rows[r].vals \cup {name}
       /\ \A n \in DOMAIN product.rows[r].vals :
            product'.rows[r].vals[n] = product.rows[r].vals[n]
\* the column list has grown by the new column, at its end
ColumnAppended(name, ctype) ==
  /\ Len(product'.cols) = Len(product.cols) + 1
  /\ SubSeq(product'.cols, 1, Len(product.cols)) = product.cols
  /\ product'.cols[Len(product'.cols)].name = name
  /\ product'.cols[Len(product'.cols)].type = ctype
  /\ ~product'.cols[Len(product'.cols)].notnull

CanonicalTypes == {"INTEGER", "REAL", "TEXT", "BLOB"}

\* C13: add_column with a type that is not one of the four canonical kinds
\* answers TypeInvalid and leaves the table as it was
C13_TypeInvalid ==
  [][\A name \in ColumnNames, ctype \in TypeNames \ CanonicalTypes, dflt \in DefaultVals :
       (Called("add_column") /\ add_column(Taker, name, ctype, dflt))
       => /\ last'.outcome = "TypeInvalid"
          /\ product' = product]_vars

\* the ledger write of request t appends the diffs the handler handed over,
\* under the handler's record id
Appended(t) ==
  /\ Len(ledger') = Len(ledger) + Len(job[t].diffs)
  /\ \A k \in 1..Len(job[t].diffs) :
       /\ ledger'[Len(ledger) + k].product_id = job[t].product_id
       /\ ledger'[Len(ledger) + k].field_name = job[t].diffs[k].field
       /\ ledger'[Len(ledger) + k].old_value = Stored(job[t].diffs[k].old)
       /\ ledger'[Len(ledger) + k].new_value = Stored(job[t].diffs[k].new)

\* C14 as stated: add_product binds a value for each field the request
\* supplies and for no other, its INSERT adds the row and hands the ledger
\* one diff for each bound value, with old value NULL and the id of the new
\* row, and the ledger write appends exactly those
C14_CreateRecordEntries ==
  [][/\ \A form \in Forms :
          (Called("add_product") /\ last'.outcome = "running" /\ add_product(Taker, form))
          => /\ Len(job'[Taker].values) = Cardinality(DOMAIN form)
             /\ \A k \in 1..Len(job'[Taker].values) :
                  job'[Taker].values[k].field \in DOMAIN form
     /\ \A t \in Requests :
          (Runs(t, "add_product", "read") /\ pc'[t] = "log")
          => /\ Len(product'.rows) = Len(product.rows) + 1
             /\ Len(job'[t].diffs) = Len(job[t].values)
             /\ \A k \in 1..Len(job'[t].diffs) :
                  /\ job'[t].diffs[k].field = job[t].values[k].field
                  /\ job'[t].diffs[k].old = Null
             /\ job'[t].product_id = product'.rows[Len(product'.rows)].rowid
     /\ \A t \in Requests :
          Runs(t, "add_product", "stamped") => Appended(t)]_vars

\* the request carries, for a column whose type holds INT, a non-empty value
\* that is no integer
BadInteger(form) ==
  \E col \in Range(cols_for_form) :
    /\ HasINT(col.type)
    /\ FormGet(form, col.name) # <<>>
    /\ ~IsIntLiteral(FormGet(form, col.name))
Rejected(t) ==
  /\ last'.outcome = "TypeCoercionError"
  /\ pc'[t] = "idle"
  /\ product' = product
  /\ ledger' = ledger
\* no row of the table carries the id
NoRowWithId(pid) ==
  \/ ~product.exists
  \/ ~HasColumn(product, "id")
  \/ Matching(product, pid) = {}

\* C15: add_product, and edit_product of an existing record, answer
\* TypeCoercionError and write nothing when the request carries a non-empty
\* value that is no integer for an INTEGER column; a request without such a
\* value is not turned down for its values, whatever text it carries for the
\* other columns
C15_TypeCoercionError ==
  [][/\ Called("add_product")
          => \A form \in TypedForms :
               add_product(Taker, form)
               => IF BadInteger(form) THEN Rejected(Taker)
                  ELSE last'.outcome = "running" /\ ~Unbound(job'[Taker].values)
     /\ Called("edit_product")
          => \A form \in TypedForms :
               edit_product(Taker, last'.arg, form)
               => /\ Unbound(job'[Taker].values) = BadInteger(form)
                  /\ product' = product
                  /\ ledger' = ledger
     /\ \A t \in Requests :
          (Runs(t, "edit_product", "read") /\ ~NoRowWithId(job[t].arg))
          => IF Unbound(job[t].values) THEN Rejected(t)
             ELSE last'.outcome # "TypeCoercionError"]_vars

\* C15 witness: an edit of an existing record has been turned down for a
\* value of an INTEGER column, and the record is as it was created
C15_Witness ==
  /\ last.op = "edit_product" /\ last.outcome = "TypeCoercionError"
  /\ (\A t \in Requests : pc[t] = "idle")
  /\ \E k \in 1..Len(product.cols) :
       product.cols[k].name # "id" /\ product.cols[k].type = "INTEGER"
  /\ Matching(product, last.arg) # {}
  /\ Len(ledger) = 2
  /\ product.rows[1].vals["Vendor_name"] = TextV(<<"a">>)
  /\ product.rows[1].vals["c"] = IntV(7)

\* C16: delete_product of an id no row carries answers RecordNotFound and
\* changes nothing; delete_product of an id in use removes that one row and
\* leaves the other rows as they were; no delete changes the ledger
C16_DeleteRecord ==
  [][/\ Called("delete_product")
          => /\ ledger' = ledger
             /\ product' = product
             /\ IF NoRowWithId(last'.arg)
                THEN last'.outcome = "RecordNotFound" /\ pc'[Taker] = "idle"
                ELSE pc'[Taker] = "selected"
     /\ \A t \in Requests :
          Runs(t, "delete_product", "selected")
          => /\ ledger' = ledger
             /\ pc'[t] = "idle"
             /\ ~NoRowWithId(job[t].arg)
                => /\ last'.outcome = "ok"
                   /\ product'.cols = product.cols
                   /\ Len(product'.rows) = Len(product.rows) - 1
                   /\ \E gone \in Matching(product, job[t].arg) :
                        product'.rows = [r \in 1..(Len(product.rows) - 1) |->
                           IF r < gone THEN product.rows[r] ELSE product.rows[r + 1]]]_vars

\* C17: a ledger write with no diffs changes nothing; with diffs it appends
\* one entry per diff, in the order of the diffs, all with one timestamp and
\* the caller's actor, with ids that grow from entry to entry and are
\* greater than every id the ledger has given out before
C17_LedgerRecord ==
  [][\A t \in Requests :
       /\ Runs(t, job[t].op, "log")
            => /\ ledger' = ledger /\ seq' = seq
               /\ IF job[t].diffs = <<>>
                  THEN pc'[t] = "idle" /\ clock' = clock
                  ELSE pc'[t] = "stamped" /\ job'[t].diffs = job[t].diffs
       /\ Runs(t, job[t].op, "stamped")
            => /\ Appended(t)
               /\ IsPrefix(ledger, ledger')
               /\ pc'[t] = "idle"
               /\ \A k \in 1..Len(job[t].diffs) :
                    LET e == ledger'[Len(ledger) + k]
                    IN  /\ e.changed_by = job[t].changed_by
                        /\ e.changed_at = ledger'[Len(ledger) + 1].changed_at
                        /\ \A j \in 1..(Len(ledger) + k - 1) : ledger'[j].id < e.id
                        /\ e.id > seq]_vars

\* C17 witness: the ledger has been called with no diffs after it had
\* written two diffs in one call, and holds those two entries only
C17_Witness ==
  /\ (\A t \in Requests : pc[t] = "idle")
  /\ last.op = "record" /\ last.outcome = "ok"
  /\ ops = 2 /\ clock = 1
  /\ Len(ledger) = 2
  /\ ledger[1].changed_at = ledger[2].changed_at
  /\ ledger[1].id < ledger[2].id
  /\ ledger[1].field_name # ledger[2].field_name

\* C18: get_versions with a record id, 0 included, returns entries of that
\* record only and at most limit of them; without a record id it returns
\* entries of all records, the newest limit of them
C18_ListVersions ==
  \A limit \in 0..(Len(ledger) + 1) :
    /\ \A product_id \in 0..2 :
         LET rows == get_versions({product_id}, limit)
         IN  /\ Len(rows) <= limit
             /\ \A k \in 1..Len(rows) : rows[k].product_id = product_id
    /\ LET rows == get_versions({}, limit)
       IN  /\ Len(rows) = (IF limit < Len(ledger) THEN limit ELSE Len(ledger))
           /\ \A k \in 1..Len(rows) : rows[k] = ledger[Len(ledger) + 1 - k]

Abs(n) == IF n < 0 THEN 0 - n ELSE n
\* n is an integer nearest to 100 times the decimal number the literal writes
NearestCents(price_raw, n) ==
  LET sign == IF price_raw[1] = "-" THEN 0 - 1 ELSE 1
  IN  2 * Abs(n * Pow10(Scale(price_raw)) - sign * Unscaled(price_raw) * 100)
        <= Pow10(Scale(price_raw))
\* what the handler has to bind for the column price_cents
PriceBound(price_raw, values) ==
  /\ Names(values, "price_cents")
  /\ Bound(values, "price_cents").t = "int"
  /\ NearestCents(price_raw, Bound(values, "price_cents").i)
  /\ price_raw = <<"1", "2", ".", "5", "0">> => Bound(values, "price_cents") = IntV(1250)
  /\ price_raw = <<"1", "2", ".", "5", "0", "4">> => Bound(values, "price_cents") = IntV(1250)
  /\ price_raw = <<"1", "2", ".", "5", "0", "6">> => Bound(values, "price_cents") = IntV(1251)

\* C19: a decimal price written through add_product or edit_product is
\* bound as an integer nearest to 100 times the price (12.50 as 1250, 12.504
\* as 1250) and stored in price_cents as bound; a price that is no decimal
\* literal is turned down and neither a row nor the ledger changes
C19_MonetaryConvention ==
  [][/\ Called("add_product")
          => \A form \in PriceForms :
               add_product(Taker, form)
               => IF IsDecimalLiteral(form["price"])
                  THEN /\ last'.outcome = "running"
                       /\ PriceBound(form["price"], job'[Taker].values)
                  ELSE Rejected(Taker)
     /\ Called("edit_product")
          => \A form \in PriceForms :
               edit_product(Taker, last'.arg, form)
               => /\ product' = product /\ ledger' = ledger
                  /\ IF IsDecimalLiteral(form["price"])
                     THEN PriceBound(form["price"], job'[Taker].values)
                     ELSE Unbound(job'[Taker].values)
     /\ \A t \in Requests :
          /\ Runs(t, "add_product", "read")
               => /\ pc'[t] = "log"
                  /\ Len(product'.rows) = Len(product.rows) + 1
                  /\ product'.rows[Len(product'.rows)].vals["price_cents"]
                       = Bound(job[t].values, "price_cents")
          /\ (Runs(t, "edit_product", "read") /\ ~NoRowWithId(job[t].arg))
               => IF Unbound(job[t].values) THEN Rejected(t)
                  ELSE pc'[t] = "selected" /\ job'[t].values = job[t].values
          /\ (Runs(t, "edit_product", "selected") /\ ~NoRowWithId(job[t].arg))
               => /\ last'.outcome \in {"running", "ok"}
                  /\ \A r \in Matching(product, job[t].arg) :
                       product'.rows[r].vals["price_cents"]
                         = Bound(job[t].values, "price_cents")]_vars

\* C19 witness: an edit has written the price 12.506 over another price, the
\* row reads 1251 cents and the ledger says so
C19_Witness ==
  /\ (\A t \in Requests : pc[t] = "idle")
  /\ last.op = "edit_product" /\ last.outcome = "ok"
  /\ \E r \in Matching(product, last.arg) : product.rows[r].vals["price_cents"] = IntV(1251)
  /\ ledger[Len(ledger)].field_name = "price_cents"
  /\ ledger[Len(ledger)].old_value = TextV(<<"1", "2", "5", "0">>)
  /\ ledger[Len(ledger)].new_value = TextV(<<"1", "2", "5", "1">>)

\* the characters of NameChars that are a letter, a digit or the underscore
IsWordChar(ch) == ch \in {"a", "Z", "7", "_"}
\* the name a call of the sanitizer is given: the form field without the
\* blanks around it, then the name the handler passes on
Given == IF identifier.calls = 0 THEN strip(identifier.raw) ELSE identifier.name

\* C20: sanitize_identifier returns, for every name, a name of the same
\* length in which letters, digits and underscores are kept and every other
\* character is an underscore; the result holds such characters only, and
\* sanitizing it again changes nothing
C20_SanitizeTotal ==
  [][identifier'.calls = identifier.calls + 1
     => /\ Len(identifier'.name) = Len(Given)
        /\ \A k \in 1..Len(Given) :
             /\ IsWordChar(identifier'.name[k])
             /\ identifier'.name[k] = (IF IsWordChar(Given[k]) THEN Given[k] ELSE "_")
        /\ sanitize_identifier(identifier'.name) = identifier'.name
        /\ identifier.calls = 1 => identifier'.name = identifier.name]_vars

\* C20 witness: a name with a blank before it and a quote after it has gone
\* through the sanitizer twice
C20_Witness ==
  /\ identifier.calls = 2
  /\ identifier.raw = <<" ", "Z", "'">>
  /\ identifier.name = <<"Z", "_">>
\* C21: what is committed while drop_column or modify_column rebuilds the
\* table is what a reader on another connection sees; with no other
\* request writing, it is the product table as it was before the call and
\* no shadow table
C21_ReaderSeesWholeTable ==
  \A t \in Requests :
    (OneAtATime /\ job[t].op \in {"drop_column", "modify_column"} /\ pc[t] # "idle")
      => /\ ~shadow.exists
         /\ product = job[t].before

\* the rebuild of request t ends with its last commit
RebuildDone(t) ==
  /\ pc[t] \in {"compared", "dropped"}
  /\ Returns(t)
  /\ last'.outcome = "ok"

\* C22: with requests served one at a time, after a successful drop_column
\* or modify_column every column but
\* the target is in the table as it was (name, type, notnull, default,
\* primary key), in the same order
C22_OtherColumnsKept ==
  [][\A t \in Requests :
       (OneAtATime' /\ RebuildDone(t))
       => LET others == SelectSeq(job[t].before.cols, LAMBDA c : c.name # job[t].col)
          IN  SelectSeq(product'.cols,
                        LAMBDA c : \E k \in 1..Len(others) : others[k].name = c.name)
                = others]_vars

\* C23: with requests served one at a time, a successful drop_column or
\* modify_column leaves as many rows in the table as it found
C23_RowCountKept ==
  [][\A t \in Requests :
       (OneAtATime' /\ RebuildDone(t))
       => Len(product'.rows) = Len(job[t].before.rows)]_vars

\* C24: with requests served one at a time, when no handler is running
\* there is no shadow table product_new, whether the last rebuild succeeded
\* or failed
C24_NoShadowLeft ==
  (OneAtATime /\ \A t \in Requests : pc[t] = "idle") => ~shadow.exists

\* C25: with requests served one at a time, when a rollback appends its
\* inversion entry the record of the
\* entry is in the table and its field reads the entry's old value; a
\* rollback whose UPDATE finds no record of the entry in the table ends in
\* an error and appends nothing
C25_RollbackOfDeletedRecord ==
  [][\A t \in Requests :
       /\ (/\ OneAtATime'
           /\ Runs(t, "rollback", "stamped") /\ Len(ledger') = Len(ledger) + 1)
            => /\ Matching(product', job[t].product_id) # {}
               /\ \A r \in Matching(product', job[t].product_id) :
                    Stored(product'.rows[r].vals[job[t].diffs[1].field])
                      = Stored(job[t].diffs[1].new)
       /\ (/\ OneAtATime'
           /\ Runs(t, "rollback", "selected")
           /\ product.exists /\ HasColumn(product, "id")
           /\ HasColumn(product, job[t].diffs[1].field)
           /\ Matching(product, job[t].product_id) = {})
            => /\ pc'[t] = "idle"
               /\ last'.outcome \notin {"ok", "running"}
               /\ ledger' = ledger]_vars

\* C26: with requests served one at a time, an id is given to one record
\* only: the ledger never holds creation entries of two creations under one
\* record id
C26_IdsNotReused ==
  \A j, k \in 1..Len(ledger) :
    (/\ OneAtATime
     /\ ledger[j].changed_by = "create" /\ ledger[k].changed_by = "create"
     /\ ledger[j].product_id = ledger[k].product_id)
    => ledger[j].changed_at = ledger[k].changed_at

\* C27: an edit whose UPDATE turns NULL into a text, the text None
\* included, or a text into NULL, hands the ledger a diff for that field
C27_NullIsNotText ==
  [][\A t \in Requests :
       (/\ Runs(t, "edit_product", "selected")
        /\ Matching(product, job[t].arg) # {}
        /\ job[t].current_values = RowOf(t).vals
        /\ last'.outcome \in {"ok", "running"})
       => LET r == Min(Matching(product, job[t].arg))
          IN  \A f \in ColumnSet(product) \ {"id"} :
                ((product.rows[r].vals[f] = Null) # (product'.rows[r].vals[f] = Null))
                => \E j \in 1..Len(job'[t].diffs) : job'[t].diffs[j].field = f]_vars

\* C28: modify_column with an old name that is not a column of the table
\* starts no rebuild, and table and shadow table stay as they were
C28_ModifyUnknownColumn ==
  [][(Called("modify_column") /\ ~HasColumn(product, last'.col))
     => /\ pc'[Taker] = "idle"
        /\ product' = product
        /\ shadow' = shadow]_vars

\* the ledger entries of a record and field
EntriesOf(pid, f) ==
  {k \in 1..Len(ledger) : ledger[k].product_id = pid /\ ledger[k].field_name = f}

\* C29: with requests served one at a time, between them, for every record
\* in the table and every field the
\* ledger has an entry for, the newest entry's new value is the stored
\* value in canonical string form, NULL for NULL
C29_LedgerMatchesState ==
  (OneAtATime /\ \A t \in Requests : pc[t] = "idle")
    => \A r \in 1..Len(product.rows) : \A f \in ColumnSet(product) \ {"id"} :
         LET pid == product.rows[r].vals["id"].i
         IN  EntriesOf(pid, f) # {}
             => ledger[Max(EntriesOf(pid, f))].new_value = Stored(product.rows[r].vals[f])

\* C30: the row a create inserts carries in id the record id handed to the
\* ledger, and no other row carries it
C30_CreatedRowHasId ==
  [][\A t \in Requests :
       (Runs(t, "add_product", "read") /\ pc'[t] = "log")
       => LET n == Len(product'.rows)
          IN  /\ product'.rows[n].vals["id"] = IntV(job'[t].product_id)
              /\ \A r \in 1..(n - 1) : product'.rows[r].vals["id"] # product'.rows[n].vals["id"]
              /\ Matching(product', job'[t].product_id) = {n}]_vars
====
